---- MODULE Spec2Model ----
(***************************************************************************)
(* The AffineDashboard component of src/app/page.tsx: the data fetch and   *)
(* its row decoder (fetchData), the view-model functions (filterData,      *)
(* sortData, handleSort) and the polling loop (useEffect).                  *)
(*                                                                         *)
(* JavaScript values are tagged tuples: <<"undefined">>, <<"null">>,       *)
(* <<"boolean", b>>, <<"string", s>> with s a sequence of one-character    *)
(* strings, and <<"number", n, d>>, the rational n/d in lowest terms with   *)
(* d > 0; d = 0 holds the non-finite numbers (n = 0 NaN, n = 1 Infinity,    *)
(* n = -1 -Infinity).  Floating-point rounding is not modelled.             *)
(***************************************************************************)
EXTENDS Integers, Sequences, FiniteSets, TLC

\* ------------------------------------------------------------ JS values

Undefined == <<"undefined">>
Null == <<"null">>
Bool(b) == <<"boolean", b>>
Str(s) == <<"string", s>>

Abs(n) == IF n < 0 THEN -n ELSE n

RECURSIVE Gcd(_, _)
Gcd(a, b) == IF b = 0 THEN a ELSE Gcd(b, a % b)

\* the number n/d (d # 0), in lowest terms with a positive denominator
Rat(n, d) ==
  LET g == Gcd(Abs(n), Abs(d))
      s == IF d < 0 THEN -1 ELSE 1
  IN  <<"number", (s * n) \div g, (s * d) \div g>>

Num(n) == <<"number", n, 1>>
NaN == <<"number", 0, 0>>
NegInfinity == <<"number", -1, 0>>

TypeOf(v) == v[1]
IsString(v) == v[1] = "string"
IsNumber(v) == v[1] = "number"
IsNaN(v) == v = NaN
IsFinite(v) == IsNumber(v) /\ v[3] # 0

\* ToBoolean: undefined, null, false, "", 0 and NaN are falsy
Truthy(v) ==
  CASE v[1] = "undefined" -> FALSE
    [] v[1] = "null" -> FALSE
    [] v[1] = "boolean" -> v[2]
    [] v[1] = "string" -> v[2] # <<>>
    [] v[1] = "number" -> v[2] # 0
    [] OTHER -> TRUE

\* a || b
Or(a, b) == IF Truthy(a) THEN a ELSE b

\* a + b
NumAdd(a, b) ==
  IF a[3] # 0 /\ b[3] # 0 THEN Rat(a[2] * b[3] + b[2] * a[3], a[3] * b[3])
  ELSE IF a = NaN \/ b = NaN THEN NaN
  ELSE IF a[3] # 0 THEN b
  ELSE IF b[3] # 0 \/ a = b THEN a
  ELSE NaN
\* a / n for an integer n > 0
NumDiv(a, n) == IF a[3] = 0 THEN a ELSE Rat(a[2], a[3] * n)
\* the sign of a - b, for a and b finite
NumCmp(a, b) ==
  LET x == a[2] * b[3] - b[2] * a[3]
  IN  IF x < 0 THEN -1 ELSE IF x > 0 THEN 1 ELSE 0

\* the marker of an operation that threw
Throw == <<"throw">>

\* --------------------------------------------------------- JS strings

DigitChars == <<"0", "1", "2", "3", "4", "5", "6", "7", "8", "9">>
HexLower == <<"a", "b", "c", "d", "e", "f">>
HexUpper == <<"A", "B", "C", "D", "E", "F">>
UpperChars ==
  <<"A", "B", "C", "D", "E", "F", "G", "H", "I", "J", "K", "L", "M",
    "N", "O", "P", "Q", "R", "S", "T", "U", "V", "W", "X", "Y", "Z">>
LowerChars ==
  <<"a", "b", "c", "d", "e", "f", "g", "h", "i", "j", "k", "l", "m",
    "n", "o", "p", "q", "r", "s", "t", "u", "v", "w", "x", "y", "z">>
WhiteSpace == {" "}

Range(s) == {s[i] : i \in DOMAIN s}
IndexOf(s, c) == CHOOSE i \in DOMAIN s : s[i] = c
DigitVal(c) == IndexOf(DigitChars, c) - 1
HexVal(c) ==
  IF c \in Range(DigitChars) THEN DigitVal(c)
  ELSE IF c \in Range(HexLower) THEN 9 + IndexOf(HexLower, c)
  ELSE 9 + IndexOf(HexUpper, c)

Drop(s, n) == SubSeq(s, n + 1, Len(s))
Take(s, n) == SubSeq(s, 1, n)

\* String.prototype.toLowerCase
LowerChar(c) ==
  IF c \in Range(UpperChars) THEN LowerChars[IndexOf(UpperChars, c)] ELSE c
ToLowerCase(s) == [i \in DOMAIN s |-> LowerChar(s[i])]

\* String.prototype.includes
Includes(s, q) ==
  \E i \in 0..(Len(s) - Len(q)) : SubSeq(s, i + 1, i + Len(q)) = q

\* String.prototype.split with a one-character separator: never empty
RECURSIVE Split(_, _)
Split(s, sep) ==
  IF \A i \in DOMAIN s : s[i] # sep THEN <<s>>
  ELSE LET k == CHOOSE i \in DOMAIN s : s[i] = sep /\ \A j \in 1..(i - 1) : s[j] # sep
       IN  <<Take(s, k - 1)>> \o Split(Drop(s, k), sep)

\* String.prototype.replace(c, ''): only the first occurrence goes
ReplaceFirst(s, c) ==
  IF \A i \in DOMAIN s : s[i] # c THEN s
  ELSE LET k == CHOOSE i \in DOMAIN s : s[i] = c /\ \A j \in 1..(i - 1) : s[j] # c
       IN  Take(s, k - 1) \o Drop(s, k)

\* the length of the longest prefix of s made of characters of the set cs
RECURSIVE PrefixLen(_, _)
PrefixLen(s, cs) ==
  IF s # <<>> /\ s[1] \in cs THEN 1 + PrefixLen(Tail(s), cs) ELSE 0

DigitSet == Range(DigitChars)
HexSet == DigitSet \cup Range(HexLower) \cup Range(HexUpper)
TrimStart(s) == Drop(s, PrefixLen(s, WhiteSpace))

RECURSIVE Pow(_, _)
Pow(b, e) == IF e = 0 THEN 1 ELSE b * Pow(b, e - 1)

\* the value of a digit string in the given radix (0 for the empty string)
RECURSIVE DigitsVal(_, _)
DigitsVal(s, radix) ==
  IF s = <<>> THEN 0
  ELSE DigitsVal(Take(s, Len(s) - 1), radix) * radix + HexVal(s[Len(s)])

StartsWith(s, p) == Len(s) >= Len(p) /\ Take(s, Len(p)) = p

\* a leading sign, and the string past it
IsNeg(s) == s # <<>> /\ s[1] = "-"
StripSign(s) == IF s # <<>> /\ s[1] \in {"+", "-"} THEN Tail(s) ELSE s

\* the longest prefix of decimal digits, and the string past it
DigitPrefix(s) == Take(s, PrefixLen(s, DigitSet))
AfterDigits(s) == Drop(s, PrefixLen(s, DigitSet))

\* parseInt(s) with no radix: leading white space, a sign, 0x for base 16,
\* then the longest prefix of digits; NaN when there is none
ParseIntDigits(neg, s, radix, digits) ==
  LET n == PrefixLen(s, digits)
  IN  IF n = 0 THEN NaN
      ELSE Num((IF neg THEN -1 ELSE 1) * DigitsVal(Take(s, n), radix))
ParseIntUnsigned(neg, s) ==
  IF StartsWith(s, <<"0", "x">>) \/ StartsWith(s, <<"0", "X">>)
  THEN ParseIntDigits(neg, Drop(s, 2), 16, HexSet)
  ELSE ParseIntDigits(neg, s, 10, DigitSet)
ParseIntSigned(s) == ParseIntUnsigned(IsNeg(s), StripSign(s))
ParseInt(s) == ParseIntSigned(TrimStart(s))

\* m * 10^(e - nf)
Scale(m, nf, e) ==
  IF e >= nf THEN Num(m * Pow(10, e - nf)) ELSE Rat(m, Pow(10, nf - e))

\* parseFloat(s): leading white space, then the longest prefix that is a
\* decimal literal (a sign, then Infinity or digits[.digits] or .digits, then
\* an exponent); NaN when there is none
ParseExponent(sgn, int, frac, rest) ==
  IF Len(int) + Len(frac) = 0 THEN NaN
  ELSE IF /\ rest # <<>>
          /\ rest[1] \in {"e", "E"}
          /\ DigitPrefix(StripSign(Tail(rest))) # <<>>
       THEN Scale(sgn * DigitsVal(int \o frac, 10), Len(frac),
                  (IF IsNeg(Tail(rest)) THEN -1 ELSE 1)
                    * DigitsVal(DigitPrefix(StripSign(Tail(rest))), 10))
       ELSE Scale(sgn * DigitsVal(int \o frac, 10), Len(frac), 0)
ParseFraction(sgn, int, rest) ==
  IF rest # <<>> /\ rest[1] = "."
  THEN ParseExponent(sgn, int, DigitPrefix(Tail(rest)), AfterDigits(Tail(rest)))
  ELSE ParseExponent(sgn, int, <<>>, rest)
ParseFloatUnsigned(sgn, s) ==
  IF StartsWith(s, <<"I", "n", "f", "i", "n", "i", "t", "y">>)
  THEN <<"number", sgn, 0>>
  ELSE ParseFraction(sgn, DigitPrefix(s), AfterDigits(s))
ParseFloatSigned(s) == ParseFloatUnsigned(IF IsNeg(s) THEN -1 ELSE 1, StripSign(s))
ParseFloat(s) == ParseFloatSigned(TrimStart(s))

\* Number.prototype.toString of an integer
RECURSIVE NatToString(_)
NatToString(n) ==
  IF n < 10 THEN <<DigitChars[n + 1]>>
  ELSE NatToString(n \div 10) \o <<DigitChars[(n % 10) + 1]>>
IntToString(n) == IF n < 0 THEN <<"-">> \o NatToString(-n) ELSE NatToString(n)

\* -------------------------------------------------------- the payload

\* the columns fetchData reads by name, and the environment columns
FullHeader ==
  <<"UID", "Hotkey", "Model", "Rev", "E1", "E2", "L3", "L4", "L5", "L6",
    "L7", "L8", "Pts", "Elig", "FirstBlk", "Wgt">>
Layers == {"L3", "L4", "L5", "L6", "L7", "L8"}

\* headerMap[name] after header.forEach((h, i) => headerMap[h] = i): the
\* position of the last column called name (1-based here), 0 for undefined
HeaderMap(header, name) ==
  IF \E i \in DOMAIN header : header[i] = name
  THEN CHOOSE i \in DOMAIN header :
         header[i] = name /\ \A j \in DOMAIN header : header[j] = name => j <= i
  ELSE 0

\* row[headerMap[name]]: undefined for an unknown column or a short row
Cell(header, row, name) ==
  LET k == HeaderMap(header, name)
  IN  IF k = 0 \/ k > Len(row) THEN Undefined ELSE row[k]

\* ------------------------------------------------------ the row decoder

\* isNaN(accuracy) ? null : accuracy
NullIfNaN(accuracy) == IF IsNaN(accuracy) THEN Null ELSE accuracy
\* isNaN(samples) ? 0 : samples
ZeroIfNaN(samples) == IF IsNaN(samples) THEN Num(0) ELSE samples

\* parseEnvScore past the split
AccuracyOf(parts) ==
  IF Len(parts) < 1 THEN Null
  ELSE NullIfNaN(ParseFloat(ReplaceFirst(parts[1], "*")))

\* parseEnvScore; scoreStr.split throws for a truthy value that is no string
parseEnvScore(scoreStr) ==
  IF ~Truthy(scoreStr) \/ scoreStr = Str(<<>>) THEN Null
  ELSE IF ~IsString(scoreStr) THEN Throw
  ELSE AccuracyOf(Split(scoreStr[2], "/"))

\* parseTotalSamples past the split
SamplesOf(parts) ==
  IF Len(parts) < 3 THEN Num(0) ELSE ZeroIfNaN(ParseInt(parts[3]))

\* parseTotalSamples; it throws as parseEnvScore does
parseTotalSamples(scoreStr) ==
  IF ~Truthy(scoreStr) \/ scoreStr = Str(<<>>) THEN Num(0)
  ELSE IF ~IsString(scoreStr) THEN Throw
  ELSE SamplesOf(Split(scoreStr[2], "/"))

\* the keys of the environments object, in insertion order: a name listed
\* twice is one key (the names here are not integer-like)
RECURSIVE EnvKeys(_)
EnvKeys(envs) ==
  IF envs = <<>> THEN <<>>
  ELSE LET init == EnvKeys(Take(envs, Len(envs) - 1))
           e == envs[Len(envs)]
       IN  IF e \in Range(init) THEN init ELSE Append(init, e)

\* environments[env] = row[headerMap[env]] || ''
EnvEntries(header, row, keys) ==
  [i \in DOMAIN keys |-> <<keys[i], Or(Cell(header, row, keys[i]), Str(<<>>))>>]
EnvObject(header, envs, row) == EnvEntries(header, row, EnvKeys(envs))

\* Object.values(environments)
EnvValues(environments) == [i \in DOMAIN environments |-> environments[i][2]]

\* reduce((sum, x) => sum + x, 0) over numbers
RECURSIVE Sum(_)
Sum(s) == IF s = <<>> THEN Num(0) ELSE NumAdd(Sum(Take(s, Len(s) - 1)), s[Len(s)])

NotNull(v) == v # Null

\* Object.values(environments).map(parseEnvScore).filter(score => score !== null)
Scores(vals) == SelectSeq([i \in DOMAIN vals |-> parseEnvScore(vals[i])], NotNull)

\* AvgEnvScore with 0 for a record that has no score
AvgEnvScoreOrZero(scores) ==
  IF Len(scores) > 0 THEN NumDiv(Sum(scores), Len(scores)) ELSE Num(0)

\* scores.length > 0 ? scores.reduce(...) / scores.length : null
AvgEnvScore(scores) ==
  IF Len(scores) > 0 THEN NumDiv(Sum(scores), Len(scores)) ELSE Null

\* Object.values(environments).reduce((sum, env) => sum + parseTotalSamples(env), 0)
TotalSamples(vals) == Sum([i \in DOMAIN vals |-> parseTotalSamples(vals[i])])

\* whether the body of rows.map throws on these environment cells
ValuesThrow(vals) == \E i \in DOMAIN vals : parseEnvScore(vals[i]) = Throw
RowThrows(header, envs, row) == ValuesThrow(EnvValues(EnvObject(header, envs, row)))

\* the record literal the body of rows.map returns
ModelRow(header, row, environments) ==
  [uid |-> Cell(header, row, "UID"),
   hotkey |-> Cell(header, row, "Hotkey"),
   model |-> Cell(header, row, "Model"),
   revision |-> Cell(header, row, "Rev"),
   environments |-> environments,
   layerPoints |-> [l \in Layers |-> Or(Cell(header, row, l), Num(0))],
   totalPoints |-> Or(Cell(header, row, "Pts"), Num(0)),
   eligible |-> Bool(Cell(header, row, "Elig") = Str(<<"Y">>)),
   firstBlock |-> Cell(header, row, "FirstBlk"),
   weight |-> Or(Cell(header, row, "Wgt"), Num(0)),
   avgEnvScore |-> AvgEnvScore(Scores(EnvValues(environments))),
   totalSamples |-> TotalSamples(EnvValues(environments))]

\* the body of rows.map on a row it does not throw on
DecodeRow(header, envs, row) == ModelRow(header, row, EnvObject(header, envs, row))

\* the outcome of a computation that may throw
Returned(v) == [threw |-> FALSE, value |-> v]
Thrown == [threw |-> TRUE, value |-> <<>>]

\* data.data.rows.map(...): the records in row order; it throws when the
\* payload has no data member or when the body throws on a row
\* DecodeRows mapping only the rows marked eligible
DecodeRowsEligibleOnly(d) ==
  IF \E i \in DOMAIN d.rows : RowThrows(d.header, d.environments, d.rows[i])
  THEN Thrown
  ELSE Returned(SelectSeq([i \in DOMAIN d.rows |->
                             DecodeRow(d.header, d.environments, d.rows[i])],
                          LAMBDA r : Truthy(r.eligible)))

DecodeRows(d) ==
  IF \E i \in DOMAIN d.rows : RowThrows(d.header, d.environments, d.rows[i])
  THEN Thrown
  ELSE Returned([i \in DOMAIN d.rows |->
                   DecodeRow(d.header, d.environments, d.rows[i])])
Decode(data) == IF ~data.hasData THEN Thrown ELSE DecodeRows(data.data)

\* ------------------------------------------------- the payloads checked

MaxRows == 2

\* a row by column name, laid out in the order of a header
RowOf(header, named) == [i \in DOMAIN header |-> named[header[i]]]

NamedRow(uid, hotkey, model, elig, wgt, c1, c2) ==
  [c \in Range(FullHeader) |->
     CASE c = "UID" -> uid
       [] c = "Hotkey" -> hotkey
       [] c = "Model" -> model
       [] c = "Rev" -> Str(<<"R", "1">>)
       [] c = "E1" -> c1
       [] c = "E2" -> c2
       [] c = "Pts" -> Num(3)
       [] c = "Elig" -> elig
       [] c = "FirstBlk" -> Num(100)
       [] c = "Wgt" -> wgt
       [] OTHER -> IF c = "L3" THEN Num(2) ELSE Num(0)]

\* environment cells: well-formed, partly formed, empty, null, not a string
EnvCells ==
  {Str(<<"7", "5", ".", "5", "*", "/", "w", "h", "a", "t", "e", "v", "e", "r", "/", "1", "2", "0">>), Str(<<"1", "0", "/", "x">>), Str(<<>>), Str(<<"x", "/", "y", "/", "1", "2", "0">>),
   Str(<<"1", "/", "1", "/", "-", "5">>), Str(<<"-", "2", ".", "5", "/", "a", "/", "4">>), Str(<<"1", "x", "/", "2", "/", "3", "x">>), Null, Num(0), Num(75)}

Without(header, c) == SelectSeq(header, LAMBDA h : h # c)
Headers == {FullHeader, <<>>} \cup {Without(FullHeader, c) : c \in Range(FullHeader)}

Stats(n) == [eligible_count |-> n, total_miners |-> n]

Payload(block, header, envs, named) ==
  [hasData |-> TRUE, block |-> block,
   data |-> [header |-> header,
             rows |-> [i \in DOMAIN named |-> RowOf(header, named[i])],
             environments |-> envs,
             stats |-> Stats(Len(named))]]

\* a response that is JSON but has no data member
NoDataPayload == [hasData |-> FALSE, block |-> 7]

Row12(c1, c2) == NamedRow(Num(12), Str(<<"5", "F", "a">>), Str(<<"A", "b">>), Str(<<"Y">>), Rat(1, 2), c1, c2)
Row45(c1, c2) == NamedRow(Num(45), Str(<<"5", "G", "b">>), Str(<<"b", "a">>), Str(<<"N">>), Num(0), c1, c2)
Row123(c1, c2) == NamedRow(Num(123), Str(<<"5", "a", "H">>), Str(<<"C", "a", "b">>), Str(<<"Y">>), Rat(1, 4), c1, c2)

WideRows == {Row12(c1, c2) : c1 \in EnvCells, c2 \in EnvCells}

SmallRows ==
  {Row12(Str(<<"7", "5", ".", "5", "*", "/", "w", "h", "a", "t", "e", "v", "e", "r", "/", "1", "2", "0">>), Str(<<"1", "0", "/", "x">>)),
   Row45(Str(<<>>), Str(<<"x", "/", "y", "/", "1", "2", "0">>)),
   Row123(Str(<<"-", "2", ".", "5", "/", "a", "/", "4">>), Null),
   Row45(Str(<<"1", "/", "1", "/", "-", "5">>), Str(<<"1", "x", "/", "2", "/", "3", "x">>)),
   Row123(Num(75), Str(<<"1", "0", "/", "x">>))}

SeqsUpTo(S, n) == UNION {[1..k -> S] : k \in 0..n}

EnvLists == {<<"E1", "E2">>, <<"E1">>, <<"E2", "E1", "E2">>, <<>>}

\* a row shorter than the header: its trailing cells are missing
ShortRowPayload(k) ==
  LET full == Payload(101, FullHeader, <<"E1", "E2">>, <<Row12(Str(<<"1", "0", "/", "x">>), Str(<<"1", "0", "/", "x">>))>>)
  IN  [full EXCEPT !.data.rows = <<Take(full.data.rows[1], k)>>]

DecodePayloads ==
  {Payload(100, h, <<"E1", "E2">>, <<r>>) : h \in Headers, r \in WideRows}
    \cup {Payload(100, h, envs, rs) :
            h \in {FullHeader, Without(FullHeader, "E2")}, envs \in EnvLists,
            rs \in SeqsUpTo(SmallRows, MaxRows)}
    \cup {ShortRowPayload(k) : k \in {0, 4, 5}}
    \cup {NoDataPayload}

\* the payloads of the polling runs: two that decode, one whose row holds
\* an environment cell that is a number, one with no data member
PayloadA ==
  Payload(100, FullHeader, <<"E1", "E2">>,
          <<Row12(Str(<<"7", "5", ".", "5", "*", "/", "w", "h", "a", "t", "e", "v", "e", "r", "/", "1", "2", "0">>), Str(<<"1", "0", "/", "x">>)), Row45(Str(<<>>), Str(<<"x", "/", "y", "/", "1", "2", "0">>))>>)
PayloadB ==
  Payload(101, FullHeader, <<"E1", "E2">>, <<Row123(Str(<<"-", "2", ".", "5", "/", "a", "/", "4">>), Null)>>)
PayloadBadCell ==
  Payload(102, FullHeader, <<"E1", "E2">>, <<Row123(Num(75), Str(<<"1", "0", "/", "x">>))>>)
PollPayloads == {PayloadA, PayloadB, PayloadBadCell, NoDataPayload}

\* the payloads shown to the view model: every order of up to MaxViewRows
\* rows, under the full header and under headers that lack a column
MaxViewRows == 2
ViewRows ==
  {Row12(Str(<<"7", "5", ".", "5", "*", "/", "w", "h", "a", "t", "e", "v", "e", "r", "/", "1", "2", "0">>), Str(<<"1", "0", "/", "x">>)),
   Row45(Str(<<>>), Str(<<"x", "/", "y", "/", "1", "2", "0">>)),
   Row123(Str(<<"-", "2", ".", "5", "/", "a", "/", "4">>), Null),
   Row12(Str(<<"-", "I", "n", "f", "i", "n", "i", "t", "y", "/", "a", "/", "4">>), Str(<<>>))}
ViewHeaders ==
  {FullHeader} \cup {Without(FullHeader, c) : c \in {"UID", "Hotkey", "Model", "Elig"}}
ViewPayloads ==
  {Payload(100, h, <<"E1", "E2">>, rs) :
     h \in ViewHeaders, rs \in SeqsUpTo(ViewRows, MaxViewRows)}

\* the strings given to the cell parsers: all of up to MaxCellLen characters
\* of CellAlphabet, and the cells of EnvCells
MaxCellLen == 4
CellAlphabet == {"1", "5", ".", "*", "/", "-", "x"}
CellStrings ==
  SeqsUpTo(CellAlphabet, MaxCellLen) \cup {c[2] : c \in {e \in EnvCells : IsString(e)}}

\* what the price source answers: no bittensor key, or a quote
PriceQuotes == {Undefined, Num(300)}

SortFields == {"uid", "totalPoints", "avgEnvScore", "totalSamples", "weight"}
Queries == {<<>>, <<"a">>, <<"1", "2">>, <<"4", "5">>, <<"A", "B">>, <<"g">>}

MaxFetches == 2
MaxPriceFetches == 2

\* ------------------------------------------------------------ the state

VARIABLES
  weightsData,     \* useState: <<data>> for the last payload parsed, <<>> for null
  models,          \* useState: the record set shown
  searchQuery, sortField, sortDirection, selectedTab,
  lastUpdate,      \* useState(new Date()): instants are numbered as they are taken
  taoPrice,
  isLoading,
  phase,           \* "rendered" (effect not yet run), "mounted", "unmounted"
  interval,        \* the 10 s timer is armed
  priceInterval,   \* the 5 min timer is armed
  fetches,         \* fetchData calls in start order: "fetch", "json" or "done"
  priceFetches,    \* fetchTaoPrice calls in start order
  last,            \* the fetchData call that completed last, how, and
                   \* whether its records were installed
  prev,            \* models and lastUpdate just before it completed, and
                   \* the newest call whose records had been installed
  probe            \* an environment cell and what the two parsers made of it

state == <<weightsData, models, searchQuery, sortField, sortDirection,
           selectedTab, lastUpdate, taoPrice, isLoading>>
viewState == <<searchQuery, sortField, sortDirection, selectedTab>>
history == <<last, prev>>
vars == <<weightsData, models, searchQuery, sortField, sortDirection,
          selectedTab, lastUpdate, taoPrice, isLoading, phase, interval,
          priceInterval, fetches, priceFetches, last, prev, probe>>

NoCall == [id |-> 0, outcome |-> "none", payload |-> <<>>, installed |-> FALSE]
\* the newest fetchData call (in start order) whose records were installed
Newest == IF last.installed /\ last.id > prev.newest THEN last.id ELSE prev.newest
NoProbe == [cell |-> Null, accuracy |-> Null, samples |-> Null, parsed |-> FALSE]

\* the component as constructed: the useState initial values
InitComponent ==
  /\ weightsData = <<>>
  /\ models = <<>>
  /\ searchQuery = <<>>
  /\ sortField = "weight"
  /\ sortDirection = "desc"
  /\ selectedTab = "all"
  /\ lastUpdate = 0
  /\ taoPrice = Null
  /\ isLoading = TRUE
  /\ phase = "rendered"
  /\ interval = FALSE
  /\ priceInterval = FALSE
  /\ fetches = <<>>
  /\ priceFetches = <<>>
  /\ last = NoCall
  /\ prev = [models |-> <<>>, lastUpdate |-> 0, newest |-> 0]

Init == InitComponent /\ probe = NoProbe

\* ------------------------------------------------------------ fetchData

\* fetchData up to its first await: setIsLoading(true), fetch(...)
StartFetch ==
  /\ isLoading' = TRUE
  /\ fetches' = Append(fetches, "fetch")

\* the fetch promise resolves: fetchData goes on to await response.json()
FetchResponds(id) ==
  /\ id \in DOMAIN fetches /\ fetches[id] = "fetch"
  /\ fetches' = [fetches EXCEPT ![id] = "json"]
  /\ UNCHANGED <<state, phase, interval, priceInterval, priceFetches, history, probe>>

\* CatchFinally with a catch block that also clears the record set
CatchFinallyClearing(id, how) ==
  /\ isLoading' = FALSE
  /\ fetches' = [fetches EXCEPT ![id] = "done"]
  /\ last' = [id |-> id, outcome |-> how, payload |-> <<>>, installed |-> FALSE]
  /\ prev' = [models |-> models, lastUpdate |-> lastUpdate, newest |-> Newest]
  /\ models' = <<>>
  /\ lastUpdate' = lastUpdate + 1
  /\ UNCHANGED <<weightsData, viewState, taoPrice, phase, interval,
                 priceInterval, priceFetches, probe>>

\* catch (error) { console.error(...) } finally { setIsLoading(false) }
CatchFinally(id, how) ==
  /\ isLoading' = FALSE
  /\ fetches' = [fetches EXCEPT ![id] = "done"]
  /\ last' = [id |-> id, outcome |-> how, payload |-> <<>>, installed |-> FALSE]
  /\ prev' = [models |-> models, lastUpdate |-> lastUpdate, newest |-> Newest]
  /\ UNCHANGED <<weightsData, models, lastUpdate, viewState, taoPrice, phase,
                 interval, priceInterval, priceFetches, probe>>

\* the fetch promise rejects: a network error
FetchRejects(id) ==
  /\ id \in DOMAIN fetches /\ fetches[id] = "fetch"
  /\ CatchFinally(id, "network")

\* response.json() rejects: the body is not JSON
JsonMalformed(id) ==
  /\ id \in DOMAIN fetches /\ fetches[id] = "json"
  /\ CatchFinally(id, "malformed")

\* Install merging the new records into the ones shown
InstallMerging(parsedModels) ==
  IF parsedModels.threw
  THEN UNCHANGED <<models, lastUpdate>>
  ELSE /\ models' = models \o parsedModels.value
       /\ lastUpdate' = lastUpdate + 1

\* setModels(parsedModels); setLastUpdate(new Date()), skipped when the
\* decoding threw
Install(parsedModels) ==
  IF parsedModels.threw
  THEN UNCHANGED <<models, lastUpdate>>
  ELSE /\ models' = parsedModels.value
       /\ lastUpdate' = lastUpdate + 1

\* JsonParsed with a sequencing token: the response of a call started before
\* one whose records are installed is dropped
JsonParsedNewestOnly(id, data) ==
  /\ id \in DOMAIN fetches /\ fetches[id] = "json"
  /\ IF id < Newest
     THEN UNCHANGED <<weightsData, models, lastUpdate>>
     ELSE weightsData' = <<data>> /\ Install(Decode(data))
  /\ isLoading' = FALSE
  /\ fetches' = [fetches EXCEPT ![id] = "done"]
  /\ last' = [id |-> id, outcome |-> "parsed", payload |-> <<data>>,
              installed |-> id >= Newest /\ ~Decode(data).threw]
  /\ prev' = [models |-> models, lastUpdate |-> lastUpdate, newest |-> Newest]
  /\ UNCHANGED <<viewState, taoPrice, phase, interval, priceInterval,
                 priceFetches, probe>>

\* response.json() resolves with data: setWeightsData(data), the rows are
\* decoded, then setModels and setLastUpdate, unless the decoding threw;
\* finally setIsLoading(false)
JsonParsed(id, data) ==
  /\ id \in DOMAIN fetches /\ fetches[id] = "json"
  /\ weightsData' = <<data>>
  /\ Install(Decode(data))
  /\ isLoading' = FALSE
  /\ fetches' = [fetches EXCEPT ![id] = "done"]
  /\ last' = [id |-> id, outcome |-> "parsed", payload |-> <<data>>,
              installed |-> ~Decode(data).threw]
  /\ prev' = [models |-> models, lastUpdate |-> lastUpdate, newest |-> Newest]
  /\ UNCHANGED <<viewState, taoPrice, phase, interval, priceInterval,
                 priceFetches, probe>>

\* ---------------------------------------------------------- fetchTaoPrice

\* the price request fails, or its body is not JSON: logged
PriceFails(k) ==
  /\ k \in DOMAIN priceFetches /\ priceFetches[k] = "fetch"
  /\ priceFetches' = [priceFetches EXCEPT ![k] = "done"]
  /\ UNCHANGED <<state, phase, interval, priceInterval, fetches, history, probe>>

\* if (data.bittensor && data.bittensor.usd) setTaoPrice(data.bittensor.usd)
PriceResolves(k, usd) ==
  /\ k \in DOMAIN priceFetches /\ priceFetches[k] = "fetch"
  /\ priceFetches' = [priceFetches EXCEPT ![k] = "done"]
  /\ taoPrice' = IF Truthy(usd) THEN usd ELSE taoPrice
  /\ UNCHANGED <<weightsData, models, viewState, lastUpdate, isLoading, phase,
                 interval, priceInterval, fetches, history, probe>>

\* ------------------------------------------------------------- useEffect

\* the effect of the first render: both fetches start, both timers are armed
Mount ==
  /\ phase = "rendered"
  /\ phase' = "mounted"
  /\ StartFetch
  /\ priceFetches' = Append(priceFetches, "fetch")
  /\ interval' = TRUE
  /\ priceInterval' = TRUE
  /\ UNCHANGED <<weightsData, models, viewState, lastUpdate, taoPrice, history, probe>>

\* setInterval(fetchData, 10000) fires
IntervalTick ==
  /\ interval
  /\ Len(fetches) < MaxFetches
  /\ StartFetch
  /\ UNCHANGED <<weightsData, models, viewState, lastUpdate, taoPrice, phase,
                 interval, priceInterval, priceFetches, history, probe>>

\* setInterval(fetchTaoPrice, 300000) fires
PriceIntervalTick ==
  /\ priceInterval
  /\ Len(priceFetches) < MaxPriceFetches
  /\ priceFetches' = Append(priceFetches, "fetch")
  /\ UNCHANGED <<state, phase, interval, priceInterval, fetches, history, probe>>

\* Unmount clearing the data timer only
UnmountKeepingPriceTimer ==
  /\ phase = "mounted"
  /\ phase' = "unmounted"
  /\ interval' = FALSE
  /\ UNCHANGED <<state, priceInterval, fetches, priceFetches, history, probe>>

\* the cleanup of the effect: both timers are cleared
Unmount ==
  /\ phase = "mounted"
  /\ phase' = "unmounted"
  /\ interval' = FALSE
  /\ priceInterval' = FALSE
  /\ UNCHANGED <<state, fetches, priceFetches, history, probe>>

\* ------------------------------------------------------------- the page

\* the page past the loading screen (isLoading && !weightsData) shows the
\* controls
ControlsShown == phase = "mounted" /\ ~(isLoading /\ weightsData = <<>>)

\* the refresh button: onClick={fetchData} disabled={isLoading}
RefreshClick ==
  /\ ControlsShown
  /\ ~isLoading
  /\ Len(fetches) < MaxFetches
  /\ StartFetch
  /\ UNCHANGED <<weightsData, models, viewState, lastUpdate, taoPrice, phase,
                 interval, priceInterval, priceFetches, history, probe>>

\* handleSort keeping the direction when another field is chosen
handleSortKeepingDirection(field) ==
  /\ ControlsShown
  /\ IF sortField = field
     THEN /\ sortDirection' = (IF sortDirection = "asc" THEN "desc" ELSE "asc")
          /\ UNCHANGED sortField
     ELSE /\ sortField' = field
          /\ UNCHANGED sortDirection
  /\ UNCHANGED <<weightsData, models, searchQuery, selectedTab, lastUpdate,
                 taoPrice, isLoading, phase, interval, priceInterval, fetches,
                 priceFetches, history, probe>>

handleSort(field) ==
  /\ ControlsShown
  /\ IF sortField = field
     THEN /\ sortDirection' = (IF sortDirection = "asc" THEN "desc" ELSE "asc")
          /\ UNCHANGED sortField
     ELSE /\ sortField' = field
          /\ sortDirection' = "desc"
  /\ UNCHANGED <<weightsData, models, searchQuery, selectedTab, lastUpdate,
                 taoPrice, isLoading, phase, interval, priceInterval, fetches,
                 priceFetches, history, probe>>

\* onChange={(e) => setSearchQuery(e.target.value)}
SearchInput(q) ==
  /\ ControlsShown
  /\ searchQuery' = q
  /\ UNCHANGED <<weightsData, models, sortField, sortDirection, selectedTab,
                 lastUpdate, taoPrice, isLoading, phase, interval, priceInterval,
                 fetches, priceFetches, history, probe>>

\* onClick={() => setSelectedTab(tab)}
TabClick(tab) ==
  /\ ControlsShown
  /\ selectedTab' = tab
  /\ UNCHANGED <<weightsData, models, searchQuery, sortField, sortDirection,
                 lastUpdate, taoPrice, isLoading, phase, interval, priceInterval,
                 fetches, priceFetches, history, probe>>

\* ------------------------------------------------------- the view model

\* item.model.toLowerCase().includes(searchQuery.toLowerCase()) and the like;
\* toLowerCase is no method of a value that is not a string
LowerIncludes(v, q) == Includes(ToLowerCase(v[2]), ToLowerCase(q))

\* item.uid.toString(): undefined and null have no toString; the numbers
\* stringified in the payloads checked are integers
HasToString(v) == v # Undefined /\ v # Null
JsToString(v) == IF IsString(v) THEN v[2] ELSE IntToString(v[2])

\* the callback of the search filter: || goes on to its next operand only
\* when the one before is false
SearchThrows(item, q) ==
  \/ ~IsString(item.model)
  \/ /\ ~LowerIncludes(item.model, q)
     /\ \/ ~IsString(item.hotkey)
        \/ /\ ~LowerIncludes(item.hotkey, q)
           /\ ~HasToString(item.uid)
\* SearchMatches comparing the model and the hotkey as they are written
SearchMatchesCaseSensitive(item, q) ==
  \/ Includes(item.model[2], q)
  \/ Includes(item.hotkey[2], q)
  \/ Includes(JsToString(item.uid), q)

SearchMatches(item, q) ==
  \/ LowerIncludes(item.model, q)
  \/ LowerIncludes(item.hotkey, q)
  \/ Includes(JsToString(item.uid), q)

\* filtered.filter(item => ...) of the search: it throws when the callback does
SearchFilter(data, q) ==
  IF \E i \in DOMAIN data : SearchThrows(data[i], q) THEN Thrown
  ELSE Returned(SelectSeq(data, LAMBDA item : SearchMatches(item, q)))

\* TabFilter applied only when no search narrowed the records
TabFilterUnlessSearched(filtered, tab) ==
  IF filtered.threw \/ tab # "eligible" \/ searchQuery # <<>> THEN filtered
  ELSE Returned(SelectSeq(filtered.value, LAMBDA item : Truthy(item.eligible)))

\* filtered.filter(item => item.eligible)
TabFilter(filtered, tab) ==
  IF filtered.threw \/ tab # "eligible" THEN filtered
  ELSE Returned(SelectSeq(filtered.value, LAMBDA item : Truthy(item.eligible)))

filterData(data) ==
  TabFilter(IF searchQuery # <<>> THEN SearchFilter(data, searchQuery)
            ELSE Returned(data),
            selectedTab)

\* the sign of a number, NaN counting as +0 as Array.prototype.sort reads it
Sign(n) == IF n < 0 THEN -1 ELSE IF n > 0 THEN 1 ELSE 0
\* the sign of a - b, for numbers
SubSign(a, b) ==
  IF a[3] # 0 /\ b[3] # 0 THEN Sign(a[2] * b[3] - b[2] * a[3])
  ELSE IF a = NaN \/ b = NaN \/ a = b THEN 0
  ELSE IF a[3] = 0 THEN a[2] ELSE -b[2]

\* String(aVal).localeCompare(String(bVal)), read as the order of the
\* characters' places in Collation
Collation ==
  <<"-", ".", "0", "1", "2", "3", "4", "5", "6", "7", "8", "9">> \o LowerChars
Place(c) == IF c \in Range(Collation) THEN IndexOf(Collation, c) ELSE 0
RECURSIVE LocaleCompare(_, _)
LocaleCompare(s, u) ==
  IF s = <<>> \/ u = <<>> THEN Sign(Len(s) - Len(u))
  ELSE IF Place(s[1]) # Place(u[1]) THEN Sign(Place(s[1]) - Place(u[1]))
  ELSE LocaleCompare(Tail(s), Tail(u))

\* aVal and bVal of the comparator before they are compared
SortKey(v) ==
  IF IsString(v) THEN Str(ToLowerCase(v[2]))
  ELSE IF v = Undefined \/ v = Null THEN Num(0)
  ELSE v
NullAsLowest(v) == IF v # Null THEN v ELSE NegInfinity

\* the comparator of sortData, in ascending direction
CompareAsc(aVal, bVal, field) ==
  IF field = "avgEnvScore" THEN SubSign(NullAsLowest(aVal), NullAsLowest(bVal))
  ELSE IF IsNumber(SortKey(aVal)) /\ IsNumber(SortKey(bVal))
       THEN SubSign(SortKey(aVal), SortKey(bVal))
  ELSE LocaleCompare(JsToString(SortKey(aVal)), JsToString(SortKey(bVal)))
\* the comparator of sortData: both branches of each ternary
Compare(a, b) ==
  IF sortDirection = "asc" THEN CompareAsc(a[sortField], b[sortField], sortField)
  ELSE CompareAsc(b[sortField], a[sortField], sortField)

\* [...data].sort(compare): the sort is stable, so an item goes in before the
\* first one that compares greater
InsertAt(s, k, item) == Take(s, k) \o <<item>> \o Drop(s, k)
\* Insert putting an item before the ones it compares equal to
InsertBeforeEquals(s, item) ==
  InsertAt(s, Cardinality({i \in DOMAIN s : \A j \in 1..i : Compare(s[j], item) < 0}), item)

Insert(s, item) ==
  InsertAt(s, Cardinality({i \in DOMAIN s : \A j \in 1..i : Compare(s[j], item) <= 0}), item)
RECURSIVE Sort(_)
Sort(data) ==
  IF data = <<>> THEN <<>>
  ELSE Insert(Sort(Take(data, Len(data) - 1)), data[Len(data)])

sortData(filtered) == IF filtered.threw THEN filtered ELSE Returned(Sort(filtered.value))

\* const filteredAndSorted = sortData(filterData(models)), of every render
filteredAndSorted == sortData(filterData(models))

\* ------------------------------------------------------ the cell parsers

\* parseEnvScore and parseTotalSamples applied to one environment cell
ParseCell ==
  /\ ~probe.parsed
  /\ probe' = [probe EXCEPT !.accuracy = parseEnvScore(probe.cell),
                            !.samples = parseTotalSamples(probe.cell),
                            !.parsed = TRUE]
  /\ UNCHANGED <<state, phase, interval, priceInterval, fetches, priceFetches, history>>

\* ---------------------------------------------------- the specifications

\* the polling loop: the effect, both timers, the refresh button, every
\* outcome of the two fetches
Next ==
  \/ Mount
  \/ IntervalTick
  \/ PriceIntervalTick
  \/ RefreshClick
  \/ Unmount
  \/ \E id \in DOMAIN fetches : FetchResponds(id)
  \/ \E id \in DOMAIN fetches : FetchRejects(id)
  \/ \E id \in DOMAIN fetches : JsonMalformed(id)
  \/ \E id \in DOMAIN fetches : \E data \in PollPayloads : JsonParsed(id, data)
  \/ \E k \in DOMAIN priceFetches : PriceFails(k)
  \/ \E k \in DOMAIN priceFetches : \E usd \in PriceQuotes : PriceResolves(k, usd)

Spec == Init /\ [][Next]_vars

\* the first fetch, resolving with any payload of DecodePayloads
NextDecode ==
  \/ Mount
  \/ \E id \in DOMAIN fetches : FetchResponds(id)
  \/ \E id \in DOMAIN fetches : \E data \in DecodePayloads : JsonParsed(id, data)

SpecDecode == Init /\ [][NextDecode]_vars

\* the first fetch, resolving with any payload of ViewPayloads, and the
\* controls of the page
NextView ==
  \/ Mount
  \/ \E id \in DOMAIN fetches : FetchResponds(id)
  \/ \E id \in DOMAIN fetches : \E data \in ViewPayloads : JsonParsed(id, data)
  \/ \E field \in SortFields : handleSort(field)
  \/ \E q \in Queries : SearchInput(q)
  \/ \E tab \in {"all", "eligible"} : TabClick(tab)

SpecView == Init /\ [][NextView]_vars

\* the two cell parsers on every string of CellStrings
InitParse ==
  /\ InitComponent
  /\ \E s \in CellStrings : probe = [NoProbe EXCEPT !.cell = Str(s)]

SpecParse == InitParse /\ [][ParseCell]_vars

\* ------------------------------------------------------------ the claims

Failed == last.outcome \in {"network", "malformed"}
Parsed == last.outcome = "parsed"
\* the payload of the fetch that completed last, and what it decodes to
LastData == last.payload[1]
Decoded == Decode(LastData)

C2_ShownIsLastDecoded ==
  (Parsed /\ ~Decoded.threw) => models = Decoded.value

\* C2 happens: a second cycle replaces the non-empty record set of the first
\* by a different one
C2_Witness ==
  /\ Parsed /\ ~Decoded.threw /\ last.id > 1
  /\ prev.models # <<>> /\ models # prev.models /\ models # <<>>

\* the table of the payload parsed last
LastTable == LastData.data
RowRecord(i) == DecodeRow(LastTable.header, LastTable.environments, LastTable.rows[i])

\* C3: the decoder returns one record per row of the payload, the i-th record
\* made from the i-th row
C3_OneRecordPerRow ==
  (Parsed /\ ~Decoded.threw) =>
    /\ Len(models) = Len(LastTable.rows)
    /\ \A i \in DOMAIN models : models[i] = RowRecord(i)

\* C3 happens: a payload of two different rows was decoded
C3_Witness ==
  /\ Parsed /\ ~Decoded.threw
  /\ Len(LastTable.rows) = 2 /\ Len(models) = 2
  /\ LastTable.rows[1] # LastTable.rows[2] /\ models[1] # models[2]

\* C4: decoding never throws whatever the cells hold, an environment cell
\* that is no string included: every row yields a record and the record set
\* of the payload is installed
C4_DecodeNeverThrows ==
  (Parsed /\ LastData.hasData) =>
    ~Decoded.threw /\ Len(models) = Len(LastTable.rows)

Lacks(c) == c \notin Range(LastTable.header)

\* C5: when the header lacks an expected column, every record carries the
\* default of that field: 0 for uid, firstBlock, totalPoints, weight and the
\* layer points, the empty string for hotkey, model and revision, false for
\* eligible
C5_MissingColumnDefaults ==
  (Parsed /\ ~Decoded.threw) =>
    \A i \in DOMAIN models :
      /\ Lacks("UID") => models[i].uid = Num(0)
      /\ Lacks("FirstBlk") => models[i].firstBlock = Num(0)
      /\ Lacks("Pts") => models[i].totalPoints = Num(0)
      /\ Lacks("Wgt") => models[i].weight = Num(0)
      /\ \A l \in Layers : Lacks(l) => models[i].layerPoints[l] = Num(0)
      /\ Lacks("Hotkey") => models[i].hotkey = Str(<<>>)
      /\ Lacks("Model") => models[i].model = Str(<<>>)
      /\ Lacks("Rev") => models[i].revision = Str(<<>>)
      /\ Lacks("Elig") => models[i].eligible = Bool(FALSE)

\* the environment cells of a record, as the decoder kept them
CellsOf(rec) == EnvValues(rec.environments)
NoAccuracy(rec) ==
  \A k \in DOMAIN CellsOf(rec) : parseEnvScore(CellsOf(rec)[k]) = Null
NoSamples(rec) ==
  \A k \in DOMAIN CellsOf(rec) : parseTotalSamples(CellsOf(rec)[k]) = Num(0)

\* C8 as claimed: a record none of whose environment cells parses to an
\* accuracy has avgEnvScore absent and totalSamples 0
C8_NoAccuracyNoSamples ==
  (Parsed /\ ~Decoded.threw) =>
    \A i \in DOMAIN models :
      NoAccuracy(models[i]) =>
        models[i].avgEnvScore = Null /\ models[i].totalSamples = Num(0)

\* C8 as amended: a record none of whose environment cells parses to an
\* accuracy has avgEnvScore absent, and totalSamples 0 when none of its
\* cells parses to a sample count either
C8_NoAccuracyAbsentAverage ==
  (Parsed /\ ~Decoded.threw) =>
    \A i \in DOMAIN models :
      NoAccuracy(models[i]) =>
        /\ models[i].avgEnvScore = Null
        /\ NoSamples(models[i]) => models[i].totalSamples = Num(0)

\* C8 happens: a record with environment cells, none parsing to an accuracy,
\* one of them carrying 120 samples
C8_Witness ==
  /\ Parsed /\ ~Decoded.threw
  /\ \E i \in DOMAIN models :
       /\ Len(CellsOf(models[i])) = 2
       /\ NoAccuracy(models[i])
       /\ models[i].avgEnvScore = Null
       /\ models[i].totalSamples = Num(120)

\* the sample count a cell contributes: 0 for a malformed cell
CellSamples(cell) == parseTotalSamples(cell)

\* C9: totalSamples of every record is the sum of the sample counts of its
\* environment cells, and is never negative
C9_TotalSamplesNeverNegative ==
  (Parsed /\ ~Decoded.threw) =>
    \A i \in DOMAIN models :
      /\ models[i].totalSamples =
           Sum([k \in DOMAIN CellsOf(models[i]) |-> CellSamples(CellsOf(models[i])[k])])
      /\ models[i].totalSamples[2] >= 0

\* C6: filterData then sortData never throw, whatever records the decoder
\* produced and whatever the query, the tab, the sort field and direction
C6_ViewNeverThrows == ~filteredAndSorted.threw

\* a numeric segment: a sign, digits with an optional fraction or a fraction
\* alone, an optional exponent, and nothing after
NumericTail(rest) ==
  \/ rest = <<>>
  \/ /\ rest[1] \in {"e", "E"}
     /\ DigitPrefix(StripSign(Tail(rest))) # <<>>
     /\ AfterDigits(StripSign(Tail(rest))) = <<>>
NumericFrom(int, rest) ==
  IF rest # <<>> /\ rest[1] = "."
  THEN Len(int) + Len(DigitPrefix(Tail(rest))) > 0
         /\ NumericTail(AfterDigits(Tail(rest)))
  ELSE int # <<>> /\ NumericTail(rest)
IsNumeric(seg) == NumericFrom(DigitPrefix(StripSign(seg)), AfterDigits(StripSign(seg)))

\* the integer part of a finite number
Trunc(v) == Num(Sign(v[2]) * (Abs(v[2]) \div v[3]))

\* the accuracy and the samples the slash-segment contract gives a cell
ContractAccuracy(cell) ==
  IF cell = <<>> \/ ~IsNumeric(ReplaceFirst(Split(cell, "/")[1], "*")) THEN Null
  ELSE ParseFloat(ReplaceFirst(Split(cell, "/")[1], "*"))
ContractSamples(cell) ==
  IF cell = <<>> \/ Len(Split(cell, "/")) < 3 THEN Num(0)
  ELSE IF ~IsNumeric(Split(cell, "/")[3]) THEN Num(0)
  ELSE Trunc(ParseFloat(Split(cell, "/")[3]))

\* C7: the accuracy of a cell is the numeric value of its first segment with
\* the asterisk stripped, absent for an empty cell or a non-numeric segment;
\* its samples are the integer value of its third segment, 0 for an empty
\* cell, fewer than three segments or a non-numeric segment
C7_SlashSegmentContract ==
  probe.parsed =>
    /\ probe.accuracy = ContractAccuracy(probe.cell[2])
    /\ probe.samples = ContractSamples(probe.cell[2])

PassesSearch(item) == searchQuery = <<>> \/ SearchMatches(item, searchQuery)
IsEligible(item) == item.eligible = Bool(TRUE)

\* C10: with an empty query and tab 'all' filterData returns every record in
\* order; with tab 'eligible' it returns, in order, exactly the records that
\* pass the search and have eligible = true; with tab 'all' exactly those
\* that pass the search
C10_TabAndSearchCompose ==
  /\ (searchQuery = <<>> /\ selectedTab = "all") => filterData(models) = Returned(models)
  /\ (~filterData(models).threw /\ selectedTab = "eligible") =>
       filterData(models).value =
         SelectSeq(models, LAMBDA item : PassesSearch(item) /\ IsEligible(item))
  /\ (~filterData(models).threw /\ selectedTab = "all") =>
       filterData(models).value = SelectSeq(models, PassesSearch)

\* C10 happens: under tab 'eligible' and a search, one record passes the
\* search but is not eligible and another is eligible but fails the search
C10_Witness ==
  /\ selectedTab = "eligible" /\ searchQuery # <<>>
  /\ ~filterData(models).threw
  /\ \E i \in DOMAIN models : PassesSearch(models[i]) /\ ~IsEligible(models[i])
  /\ \E i \in DOMAIN models : ~PassesSearch(models[i]) /\ IsEligible(models[i])

\* q occurs in s at some place, letters compared as written or without
\* regard to their case
Occurs(q, s) ==
  \E k \in 0..(Len(s) - Len(q)) : \A j \in 1..Len(q) : s[k + j] = q[j]
OccursIgnoringCase(q, s) ==
  \E k \in 0..(Len(s) - Len(q)) :
    \A j \in 1..Len(q) : LowerChar(s[k + j]) = LowerChar(q[j])
QueryMatches(item) ==
  \/ IsString(item.model) /\ OccursIgnoringCase(searchQuery, item.model[2])
  \/ IsString(item.hotkey) /\ OccursIgnoringCase(searchQuery, item.hotkey[2])
  \/ IsNumber(item.uid) /\ Occurs(searchQuery, IntToString(item.uid[2]))
UidOf(item) == item.uid[2]

\* C11: under a non-empty query the records filterData keeps are exactly
\* those whose model or hotkey holds the query without regard to case, or
\* whose uid in decimal holds the query
C11_SearchMatchesAnyOfThree ==
  (searchQuery # <<>> /\ selectedTab = "all" /\ ~filterData(models).threw) =>
    filterData(models).value = SelectSeq(models, QueryMatches)

\* C11 happens: the query "12" keeps uid 123, which it matches by the uid
\* alone, and drops uid 45
C11_Witness ==
  /\ searchQuery = <<"1", "2">> /\ selectedTab = "all"
  /\ ~filterData(models).threw
  /\ Len(models) = 2 /\ Len(filterData(models).value) = 1
  /\ UidOf(filterData(models).value[1]) = 123
  /\ \E i \in DOMAIN models : UidOf(models[i]) = 45

\* the records shown, when the view model returned
Shown == filteredAndSorted.value
HasScore(item) == item.avgEnvScore # Null

\* C12: sorted by avgEnvScore in descending direction, no record with an
\* absent score stands before a record with a numeric score, whatever the
\* scores
C12_AbsentScoresLast ==
  (sortField = "avgEnvScore" /\ sortDirection = "desc" /\ ~filteredAndSorted.threw) =>
    \A i \in DOMAIN Shown : \A j \in DOMAIN Shown :
      (i < j) => ~(~HasScore(Shown[i]) /\ HasScore(Shown[j]))

\* the records given to sortData, when filterData returned
Filtered == filterData(models).value

\* the value a record is ordered by: the selected field, an absent score
\* ranking lowest and a missing value as 0
OrderKey(item) ==
  IF item[sortField] \in {Null, Undefined}
  THEN (IF sortField = "avgEnvScore" THEN NegInfinity ELSE Num(0))
  ELSE item[sortField]
\* v is less than w, for numbers finite or infinite
Less(v, w) ==
  IF v[3] # 0 /\ w[3] # 0 THEN v[2] * w[3] < w[2] * v[3]
  ELSE IF v[3] = 0 /\ w[3] = 0 THEN v[2] < w[2]
  ELSE IF v[3] = 0 THEN v[2] < 0
  ELSE w[2] > 0
\* a comes strictly before b in the selected direction
Before(a, b) ==
  IF sortDirection = "asc" THEN Less(OrderKey(a), OrderKey(b))
  ELSE Less(OrderKey(b), OrderKey(a))
Ties(a, b) == ~Before(a, b) /\ ~Before(b, a)
Bijections(n) == {p \in [1..n -> 1..n] : \A i, j \in 1..n : p[i] = p[j] => i = j}

\* C13: the output of sortData is a rearrangement of its input that is
\* ordered by the selected field in the selected direction and keeps the
\* input order of the records that tie on that field
C13_StableSort ==
  ~filteredAndSorted.threw =>
    /\ Len(Shown) = Len(Filtered)
    /\ \E p \in Bijections(Len(Filtered)) :
         /\ \A i \in DOMAIN Shown : Shown[i] = Filtered[p[i]]
         /\ \A i \in DOMAIN Shown : \A j \in DOMAIN Shown :
              (i < j) => /\ ~Before(Shown[j], Shown[i])
                         /\ Ties(Shown[i], Shown[j]) => p[i] < p[j]

\* C13 happens: two different records that tie on the selected field are
\* sorted in descending direction and stay in their input order
C13_Witness ==
  /\ ~filteredAndSorted.threw /\ sortDirection = "desc"
  /\ Len(Filtered) = 2 /\ Filtered[1] # Filtered[2]
  /\ Ties(Filtered[1], Filtered[2])
  /\ Shown = Filtered

\* C13 happens as well: two records are put in the other order
C13_Reordered ==
  /\ ~filteredAndSorted.threw
  /\ Len(Filtered) = 2 /\ Before(Filtered[2], Filtered[1])
  /\ Shown = <<Filtered[2], Filtered[1]>>

\* a step of handleSort: the only steps that change the sort field or the
\* sort direction; the field chosen is the new field
SortChanges == <<sortField, sortDirection>>' # <<sortField, sortDirection>>
Flipped(direction) == IF direction = "asc" THEN "desc" ELSE "asc"

\* C14: handleSort on the current field keeps the field and flips the
\* direction; on another field it sets that field and the direction 'desc',
\* whatever the direction was; it changes nothing else of the view state
C14_SortToggle ==
  [][SortChanges =>
       /\ sortField' = sortField => sortDirection' = Flipped(sortDirection)
       /\ sortField' # sortField => sortDirection' = "desc"
       /\ UNCHANGED <<searchQuery, selectedTab, models, weightsData,
                      lastUpdate, taoPrice, isLoading>>]_vars

\* C14 happens: the direction of a newly chosen field was flipped to 'asc',
\* under a query and a tab chosen before
C14_Witness ==
  /\ sortField = "uid" /\ sortDirection = "asc"
  /\ searchQuery # <<>> /\ selectedTab = "eligible"

\* C15: in every state the payload held in weightsData and the record set
\* in models come from the same payload: both initial, or models the
\* decoding of the payload weightsData holds
C15_MetadataAndRecordsTogether ==
  \/ weightsData = <<>> /\ models = <<>>
  \/ /\ weightsData # <<>>
     /\ ~Decode(weightsData[1]).threw
     /\ models = Decode(weightsData[1]).value

\* the call that completed last was started before a call whose records
\* were already installed
Stale == last.id < prev.newest

\* C16: the response of a fetch started before another one whose response
\* was already applied is applied all the same: it replaces the records
\* shown and the timestamp
C16_StaleResponseOverwrites ==
  (Parsed /\ Stale /\ ~Decoded.threw) =>
    models = Decoded.value /\ lastUpdate = prev.lastUpdate + 1

\* C16 happens: the records shown come from the fetch started first, applied
\* after the different records of the fetch started second
C16_Witness ==
  /\ Parsed /\ ~Decoded.threw
  /\ last.id = 1 /\ prev.newest = 2
  /\ models = Decoded.value /\ models # prev.models /\ prev.models # <<>>

\* C17: the step that mounts starts one data fetch and one price fetch and
\* arms both timers; once torn down both timers are off, and no step starts
\* a data fetch or a price fetch any more
C17_TimersLiveWithTheView ==
  [][/\ (phase = "rendered" /\ phase' = "mounted") =>
          /\ fetches' = Append(fetches, "fetch")
          /\ priceFetches' = Append(priceFetches, "fetch")
          /\ interval' /\ priceInterval'
     /\ phase' = "unmounted" => ~interval' /\ ~priceInterval'
     /\ phase = "unmounted" =>
          /\ Len(fetches') = Len(fetches)
          /\ Len(priceFetches') = Len(priceFetches)]_vars

\* C17 happens: the view was torn down when each timer could still have
\* started a fetch, the two fetches of the mount being the only ones
C17_Witness ==
  /\ phase = "unmounted" /\ ~interval /\ ~priceInterval
  /\ fetches = <<"done">> /\ priceFetches = <<"done">>
  /\ Len(fetches) < MaxFetches /\ Len(priceFetches) < MaxPriceFetches

\* a fetchData call has started and not yet completed
InFlight == \E id \in DOMAIN fetches : fetches[id] # "done"

\* C18: isLoading is true in every state in which a data fetch is in
\* flight, and false in every state of the mounted or torn-down view in
\* which none is
C18_LoadingWhileInFlight ==
  /\ InFlight => isLoading
  /\ (~InFlight /\ phase # "rendered") => ~isLoading
====
